---------------------------- MODULE Spec2Model ----------------------------
(***************************************************************************)
(* Model of src/app.py: the rule-based prompt router (route_prompt) and    *)
(* the Flask handlers around it (/search, /prompt, /subscription,          *)
(* /router-test, /history, /history/clear, /search-and-route).             *)
(*                                                                         *)
(* A Python str is a sequence of one-character strings, so that lower(),   *)
(* the substring test `keyword in prompt_lower` and re.search are computed *)
(* character by character as the interpreter computes them.                *)
(*                                                                         *)
(* The mock responders' random template choice and wall-clock timestamp    *)
(* are write-only outputs that no handler reads back; a responder is       *)
(* modelled by the fields that identify it (agent, agent_color).           *)
(***************************************************************************)
EXTENDS Integers, Sequences, FiniteSets

VARIABLES subscriptions, session, recorded, response

vars == <<subscriptions, session, recorded, response>>

----------------------------------------------------------------------------
(* Bounds of the model                                                     *)

\* a prompt is at most MaxWords fragments joined by single spaces
MaxWords == 2
\* /prompt requests recorded between two clears, history specification
MaxRecorded == 11
\* /prompt requests recorded between two clears, application specification
MaxAppRecorded == 2

----------------------------------------------------------------------------
(* Python values                                                           *)

\* None, as returned by dict.get for a missing JSON field
None == "<None>"

\* d[k] = v on a dict: adds the key when it is absent
dict_set(d, k, v) == [x \in (DOMAIN d) \cup {k} |-> IF x = k THEN v ELSE d[x]]

\* d.get(k, default)
dict_get(d, k, default) == IF k \in DOMAIN d THEN d[k] ELSE default

\* the empty dict
EmptyDict == [x \in {} |-> None]

Min(a, b) == IF a <= b THEN a ELSE b

----------------------------------------------------------------------------
(* Strings                                                                 *)

UpperCase == <<"A","B","C","D","E","F","G","H","I","J","K","L","M",
               "N","O","P","Q","R","S","T","U","V","W","X","Y","Z">>

LowerCase == <<"a","b","c","d","e","f","g","h","i","j","k","l","m",
               "n","o","p","q","r","s","t","u","v","w","x","y","z">>

Digits == {"0","1","2","3","4","5","6","7","8","9"}

\* \s of the re module
Whitespace == {" ", "\t", "\n"}

\* \w of the re module
WordChars == {UpperCase[i] : i \in 1..26} \cup {LowerCase[i] : i \in 1..26}
               \cup Digits \cup {"_"}

\* str.lower() on one character
lower_char(c) ==
  IF \E i \in 1..26 : UpperCase[i] = c
    THEN LowerCase[CHOOSE i \in 1..26 : UpperCase[i] = c]
    ELSE c

\* str.lower()
lower(s) == [i \in 1..Len(s) |-> lower_char(s[i])]

\* the literal lit occurs in s starting at index i (1-based)
LiteralAt(s, i, lit) ==
  /\ i + Len(lit) - 1 <= Len(s)
  /\ \A j \in 1..Len(lit) : s[i + j - 1] = lit[j]

\* `sub in s` on strings
contains(s, sub) == \E i \in 1..(Len(s) + 1) : LiteralAt(s, i, sub)

\* \b before index i: exactly one of s[i-1], s[i] is a word character
WordBoundary(s, i) ==
  LET before == i > 1 /\ i - 1 <= Len(s) /\ s[i - 1] \in WordChars
      after  == i >= 1 /\ i <= Len(s) /\ s[i] \in WordChars
  IN  before # after

\* re.search(pattern, s) for the three pattern shapes of the rule table:
\*   "word"            \b(a1|a2|...)\b
\*   "word_space_word" \b(a1|...)\s+(b1|...)\b
\*   "class"           [chars]+
re_search(pattern, s) ==
  CASE pattern.kind = "word" ->
         \E i \in 1..(Len(s) + 1) : \E k \in 1..Len(pattern.first) :
           /\ LiteralAt(s, i, pattern.first[k])
           /\ WordBoundary(s, i)
           /\ WordBoundary(s, i + Len(pattern.first[k]))
    [] pattern.kind = "word_space_word" ->
         \E i \in 1..(Len(s) + 1) : \E k \in 1..Len(pattern.first) :
           /\ LiteralAt(s, i, pattern.first[k])
           /\ WordBoundary(s, i)
           /\ LET gap == i + Len(pattern.first[k])
              IN  \E n \in 1..(Len(s) - gap + 1) : \E m \in 1..Len(pattern.second) :
                    /\ \A j \in gap..(gap + n - 1) : s[j] \in Whitespace
                    /\ LiteralAt(s, gap + n, pattern.second[m])
                    /\ WordBoundary(s, gap + n + Len(pattern.second[m]))
    [] pattern.kind = "class" ->
         \E i \in 1..Len(s) : s[i] \in pattern.chars

----------------------------------------------------------------------------
(* route_prompt                                                            *)

classification_rules ==
  <<
    [agent |-> "codex",
     patterns |-> <<
       \* r'\b(code|program|function|script|debug|compile|syntax|api|app|software|develop)\b'
       [kind |-> "word", first |-> <<
            <<"c","o","d","e">>, <<"p","r","o","g","r","a","m">>,
            <<"f","u","n","c","t","i","o","n">>, <<"s","c","r","i","p","t">>,
            <<"d","e","b","u","g">>, <<"c","o","m","p","i","l","e">>,
            <<"s","y","n","t","a","x">>, <<"a","p","i">>, <<"a","p","p">>,
            <<"s","o","f","t","w","a","r","e">>, <<"d","e","v","e","l","o","p">>>>,
        second |-> <<>>, chars |-> {}],
       \* r'\b(react|vue|angular|django|flask|node|express|python|java|javascript|html|css)\b'
       [kind |-> "word", first |-> <<
            <<"r","e","a","c","t">>, <<"v","u","e">>, <<"a","n","g","u","l","a","r">>,
            <<"d","j","a","n","g","o">>, <<"f","l","a","s","k">>, <<"n","o","d","e">>,
            <<"e","x","p","r","e","s","s">>, <<"p","y","t","h","o","n">>, <<"j","a","v","a">>,
            <<"j","a","v","a","s","c","r","i","p","t">>, <<"h","t","m","l">>, <<"c","s","s">>>>,
        second |-> <<>>, chars |-> {}],
       \* r'\b(algorithm|data structure|class|object|method|variable|loop|array)\b'
       [kind |-> "word", first |-> <<
            <<"a","l","g","o","r","i","t","h","m">>,
            <<"d","a","t","a"," ","s","t","r","u","c","t","u","r","e">>, <<"c","l","a","s","s">>,
            <<"o","b","j","e","c","t">>, <<"m","e","t","h","o","d">>,
            <<"v","a","r","i","a","b","l","e">>, <<"l","o","o","p">>, <<"a","r","r","a","y">>>>,
        second |-> <<>>, chars |-> {}],
       \* r'\b(programming|coding|software development|web dev)\b'
       [kind |-> "word", first |-> <<
            <<"p","r","o","g","r","a","m","m","i","n","g">>, <<"c","o","d","i","n","g">>,
            <<"s","o","f","t","w","a","r","e"," ","d","e","v","e","l","o","p","m","e","n","t">>,
            <<"w","e","b"," ","d","e","v">>>>,
        second |-> <<>>, chars |-> {}] >>,
     keywords |-> <<
            <<"w","r","i","t","e"," ","c","o","d","e">>, <<"f","i","x"," ","b","u","g">>,
            <<"c","r","e","a","t","e"," ","f","u","n","c","t","i","o","n">>,
            <<"p","r","o","g","r","a","m">>, <<"d","e","b","u","g">>,
            <<"b","u","i","l","d"," ","a","p","p">>>>,
     reason |-> "Programming/code request detected"],
    [agent |-> "perplexity",
     patterns |-> <<
       \* r'\b(link|source|reference|citation|article|research|paper|find|search|google|look up)\b'
       [kind |-> "word", first |-> <<
            <<"l","i","n","k">>, <<"s","o","u","r","c","e">>,
            <<"r","e","f","e","r","e","n","c","e">>, <<"c","i","t","a","t","i","o","n">>,
            <<"a","r","t","i","c","l","e">>, <<"r","e","s","e","a","r","c","h">>,
            <<"p","a","p","e","r">>, <<"f","i","n","d">>, <<"s","e","a","r","c","h">>,
            <<"g","o","o","g","l","e">>, <<"l","o","o","k"," ","u","p">>>>,
        second |-> <<>>, chars |-> {}],
       \* r'\b(where can I|find me|search for|give me sources|list of resources)\b'
       [kind |-> "word", first |-> <<
            <<"w","h","e","r","e"," ","c","a","n"," ","I">>, <<"f","i","n","d"," ","m","e">>,
            <<"s","e","a","r","c","h"," ","f","o","r">>,
            <<"g","i","v","e"," ","m","e"," ","s","o","u","r","c","e","s">>,
            <<"l","i","s","t"," ","o","f"," ","r","e","s","o","u","r","c","e","s">>>>,
        second |-> <<>>, chars |-> {}] >>,
     keywords |-> <<
            <<"s","o","u","r","c","e","s">>, <<"r","e","f","e","r","e","n","c","e","s">>,
            <<"l","i","n","k","s">>, <<"c","i","t","a","t","i","o","n","s">>,
            <<"r","e","s","e","a","r","c","h">>>>,
     reason |-> "Source/link request detected"],
    [agent |-> "gemini",
     patterns |-> <<
       \* r'\b(fact|history|date|location|famous|population|culture|definition|meaning)\b'
       [kind |-> "word", first |-> <<
            <<"f","a","c","t">>, <<"h","i","s","t","o","r","y">>, <<"d","a","t","e">>,
            <<"l","o","c","a","t","i","o","n">>, <<"f","a","m","o","u","s">>,
            <<"p","o","p","u","l","a","t","i","o","n">>, <<"c","u","l","t","u","r","e">>,
            <<"d","e","f","i","n","i","t","i","o","n">>, <<"m","e","a","n","i","n","g">>>>,
        second |-> <<>>, chars |-> {}],
       \* r'\b(who|what|where|when)\s+(is|are|was|were|did|does)\b'
       [kind |-> "word_space_word", first |-> <<
            <<"w","h","o">>, <<"w","h","a","t">>, <<"w","h","e","r","e">>, <<"w","h","e","n">>>>,
        second |-> <<
            <<"i","s">>, <<"a","r","e">>, <<"w","a","s">>, <<"w","e","r","e">>, <<"d","i","d">>,
            <<"d","o","e","s">>>>,
        chars |-> {}],
       \* r'\b(factual|knowledge|google|search|information|dictionary)\b'
       [kind |-> "word", first |-> <<
            <<"f","a","c","t","u","a","l">>, <<"k","n","o","w","l","e","d","g","e">>,
            <<"g","o","o","g","l","e">>, <<"s","e","a","r","c","h">>,
            <<"i","n","f","o","r","m","a","t","i","o","n">>,
            <<"d","i","c","t","i","o","n","a","r","y">>>>,
        second |-> <<>>, chars |-> {}] >>,
     keywords |-> <<
            <<"t","e","l","l"," ","m","e"," ","a","b","o","u","t">>,
            <<"w","h","a","t"," ","i","s">>, <<"w","h","o"," ","i","s">>,
            <<"w","h","e","n"," ","d","i","d">>, <<"w","h","e","r","e"," ","i","s">>,
            <<"d","e","f","i","n","e">>>>,
     reason |-> "Factual knowledge/lookup request detected"],
    [agent |-> "deepseek",
     patterns |-> <<
       \* r'\b(explain in detail|comprehensive|thorough|in-depth|elaborate|detailed)\b'
       [kind |-> "word", first |-> <<
            <<"e","x","p","l","a","i","n"," ","i","n"," ","d","e","t","a","i","l">>,
            <<"c","o","m","p","r","e","h","e","n","s","i","v","e">>,
            <<"t","h","o","r","o","u","g","h">>, <<"i","n","-","d","e","p","t","h">>,
            <<"e","l","a","b","o","r","a","t","e">>, <<"d","e","t","a","i","l","e","d">>>>,
        second |-> <<>>, chars |-> {}],
       \* r'\b(long form|essay|extensive|complete guide|full explanation)\b'
       [kind |-> "word", first |-> <<
            <<"l","o","n","g"," ","f","o","r","m">>, <<"e","s","s","a","y">>,
            <<"e","x","t","e","n","s","i","v","e">>,
            <<"c","o","m","p","l","e","t","e"," ","g","u","i","d","e">>,
            <<"f","u","l","l"," ","e","x","p","l","a","n","a","t","i","o","n">>>>,
        second |-> <<>>, chars |-> {}] >>,
     keywords |-> <<
            <<"e","x","p","l","a","i","n"," ","t","h","o","r","o","u","g","h","l","y">>,
            <<"d","e","t","a","i","l","e","d"," ","a","n","a","l","y","s","i","s">>,
            <<"c","o","m","p","r","e","h","e","n","s","i","v","e"," ","g","u","i","d","e">>,
            <<"i","n"," ","d","e","p","t","h">>>>,
     reason |-> "Long-form explanation requested"],
    [agent |-> "gpai",
     patterns |-> <<
       \* r'[\d\+\-\*\/\=\%\(\)]+'
       [kind |-> "class", first |-> <<>>, second |-> <<>>,
        chars |-> Digits \cup {"+","-","*","/","=","%","(",")"}],
       \* r'\b(calculate|solve|equation|math|algebra|calculus|geometry|puzzle|logic)\b'
       [kind |-> "word", first |-> <<
            <<"c","a","l","c","u","l","a","t","e">>, <<"s","o","l","v","e">>,
            <<"e","q","u","a","t","i","o","n">>, <<"m","a","t","h">>,
            <<"a","l","g","e","b","r","a">>, <<"c","a","l","c","u","l","u","s">>,
            <<"g","e","o","m","e","t","r","y">>, <<"p","u","z","z","l","e">>,
            <<"l","o","g","i","c">>>>,
        second |-> <<>>, chars |-> {}],
       \* r'\b(compute|sum|difference|product|quotient|modulo|derivative|integral)\b'
       [kind |-> "word", first |-> <<
            <<"c","o","m","p","u","t","e">>, <<"s","u","m">>,
            <<"d","i","f","f","e","r","e","n","c","e">>, <<"p","r","o","d","u","c","t">>,
            <<"q","u","o","t","i","e","n","t">>, <<"m","o","d","u","l","o">>,
            <<"d","e","r","i","v","a","t","i","v","e">>, <<"i","n","t","e","g","r","a","l">>>>,
        second |-> <<>>, chars |-> {}] >>,
     keywords |-> <<
            <<"s","o","l","v","e"," ","t","h","i","s">>, <<"c","a","l","c","u","l","a","t","e">>,
            <<"m","a","t","h"," ","p","r","o","b","l","e","m">>,
            <<"e","q","u","a","t","i","o","n">>, <<"f","o","r","m","u","l","a">>>>,
     reason |-> "Math/logic/puzzle request detected"],
    [agent |-> "chatgpt",
     patterns |-> <<
       \* r'\b(opinion|thoughts|perspective|general|anyway|basically|overall)\b'
       [kind |-> "word", first |-> <<
            <<"o","p","i","n","i","o","n">>, <<"t","h","o","u","g","h","t","s">>,
            <<"p","e","r","s","p","e","c","t","i","v","e">>, <<"g","e","n","e","r","a","l">>,
            <<"a","n","y","w","a","y">>, <<"b","a","s","i","c","a","l","l","y">>,
            <<"o","v","e","r","a","l","l">>>>,
        second |-> <<>>, chars |-> {}] >>,
     keywords |-> <<
            >>,
     reason |-> "General knowledge/conversational query"]
  >>

\* the six agent identifiers, in the order the rules declare them; this is
\* the key order of the scores dict built at line 122
score_keys == [i \in 1..Len(classification_rules) |-> classification_rules[i].agent]

Agents == {score_keys[i] : i \in 1..Len(score_keys)}

PatternWeight == 3

KeywordWeight == 5

DefaultBonus == 1

NoIntentReason == "No specific intent detected - routing to general assistant"

DefaultRoutingReason == "Default routing"

\* for pattern in rule['patterns']: if re.search(...): scores[agent] += 3
RECURSIVE pattern_loop(_, _, _, _)
pattern_loop(patterns, n, prompt_lower, acc) ==
  IF n > Len(patterns) THEN acc
  ELSE pattern_loop(patterns, n + 1, prompt_lower,
                    IF re_search(patterns[n], prompt_lower)
                      THEN acc + PatternWeight ELSE acc)

\* variant: a keyword hit adds the pattern weight
RECURSIVE keyword_loop_pattern_weight(_, _, _, _)
keyword_loop_pattern_weight(keywords, n, prompt_lower, acc) ==
  IF n > Len(keywords) THEN acc
  ELSE keyword_loop_pattern_weight(keywords, n + 1, prompt_lower,
                    IF contains(prompt_lower, keywords[n])
                      THEN acc + PatternWeight ELSE acc)

\* for keyword in rule['keywords']: if keyword in prompt_lower: scores[agent] += 5
RECURSIVE keyword_loop(_, _, _, _)
keyword_loop(keywords, n, prompt_lower, acc) ==
  IF n > Len(keywords) THEN acc
  ELSE keyword_loop(keywords, n + 1, prompt_lower,
                    IF contains(prompt_lower, keywords[n])
                      THEN acc + KeywordWeight ELSE acc)

\* for rule in classification_rules: ... applied to the scores dict
RECURSIVE rule_loop(_, _, _)
rule_loop(n, prompt_lower, scores) ==
  IF n > Len(classification_rules) THEN scores
  ELSE LET rule  == classification_rules[n]
           agent == rule.agent
           s1    == pattern_loop(rule.patterns, 1, prompt_lower, scores[agent])
           s2    == keyword_loop(rule.keywords, 1, prompt_lower, s1)
       IN  rule_loop(n + 1, prompt_lower, [scores EXCEPT ![agent] = s2])

\* variant: the scores dict without the chatgpt bonus
final_scores_no_bonus(prompt_text) ==
  rule_loop(1, lower(prompt_text), [a \in Agents |-> 0])

\* the scores dict after `scores['chatgpt'] += 1`
final_scores(prompt_text) ==
  LET prompt_lower == lower(prompt_text)
      zero   == [a \in Agents |-> 0]
      scored == rule_loop(1, prompt_lower, zero)
  IN  [scored EXCEPT !["chatgpt"] = @ + DefaultBonus]

\* max(scores.values())
max_of(scores) == CHOOSE m \in {scores[a] : a \in DOMAIN scores} :
                    \A a \in DOMAIN scores : scores[a] <= m

\* [agent for agent, score in scores.items() if score == max_score]
top_agents_of(scores, max_score) ==
  LET IsTop(a) == scores[a] = max_score
  IN  SelectSeq(score_keys, IsTop)

\* variant: top_agents[-1]
select_agent_last(top_agents) == top_agents[Len(top_agents)]

\* top_agents[0]
select_agent(top_agents) == top_agents[1]

\* variant: the lookup loop stops before the last rule
reason_lookup_skips_last(selected_agent) ==
  LET hits == {i \in 1..(Len(classification_rules) - 1) :
                 classification_rules[i].agent = selected_agent}
  IN  IF hits # {}
        THEN [agent  |-> selected_agent,
              reason |-> classification_rules[
                           CHOOSE i \in hits : \A j \in hits : i <= j].reason]
        ELSE [agent |-> "chatgpt", reason |-> DefaultRoutingReason]

\* the reason of the first rule whose agent is selected_agent, else the
\* trailing 'Default routing' return
reason_lookup(selected_agent) ==
  LET hits == {i \in 1..Len(classification_rules) :
                 classification_rules[i].agent = selected_agent}
  IN  IF hits # {}
        THEN [agent  |-> selected_agent,
              reason |-> classification_rules[
                           CHOOSE i \in hits : \A j \in hits : i <= j].reason]
        ELSE [agent |-> "chatgpt", reason |-> DefaultRoutingReason]

route_prompt(prompt_text) ==
  LET scores    == final_scores(prompt_text)
      max_score == max_of(scores)
  IN  IF max_score = 0
        THEN [agent |-> "chatgpt", reason |-> NoIntentReason]
        ELSE reason_lookup(select_agent(top_agents_of(scores, max_score)))

----------------------------------------------------------------------------
(* Request inputs                                                          *)

\* prompt fragments: a keyword-only hit, pattern-only hits of five agents,
\* a pattern shared by two agents, an upper-case spelling, and no hit
Fragments ==
  { <<"f","i","x"," ","b","u","g">>, <<"s","c","r","i","p","t">>,
    <<"g","o","o","g","l","e">>, <<"s","o","u","r","c","e","s">>,
    <<"W","h","a","t"," ","i","s">>, <<"1","2">>,
    <<"o","p","i","n","i","o","n">>, <<"i","n","-","d","e","p","t","h">>,
    <<"h","e","l","l","o">> }

RECURSIVE PromptsOfWords(_)
PromptsOfWords(n) ==
  IF n = 0 THEN {<<>>}
  ELSE IF n = 1 THEN Fragments
  ELSE {p \o <<" ">> \o f : p \in PromptsOfWords(n - 1), f \in Fragments}

\* the prompts of section 8 of the specification
DocumentedPrompts ==
  { <<"p","l","e","a","s","e"," ","f","i","x"," ","b","u","g"," ","i","n"," ","m","y"," ","s","c","r","i","p","t">>,
    <<"W","h","a","t"," ","i","s"," ","t","h","e"," ","c","a","p","i","t","a","l"," ","o","f"," ","F","r","a","n","c","e">>,
    <<"s","o","l","v","e"," ","1","2"," ","+"," ","7"," ","*"," ","3">>,
    <<"F","I","X"," ","B","U","G">> }

Prompts == UNION {PromptsOfWords(n) : n \in 0..MaxWords} \cup DocumentedPrompts

\* the prompts of the stateful specifications: empty, no hit, one agent,
\* and a tie of two agents
AppPrompts ==
  { <<>>, <<"h","e","l","l","o">>, <<"s","c","r","i","p","t">>,
    <<"g","o","o","g","l","e">> }

\* two prompts routed to different agents
HistoryPrompts == { <<"h","e","l","l","o">>, <<"s","c","r","i","p","t">> }

\* the 'agent' field of a /subscription request
AgentInputs == Agents \cup {"bard", None}

\* the 'status' field of a /subscription request
StatusInputs == BOOLEAN

\* route_prompt over the model's prompts
routing_table == [p \in Prompts |-> route_prompt(p)]

----------------------------------------------------------------------------
(* Mock responders                                                         *)

call_chatgpt(prompt) == [agent |-> "ChatGPT", agent_color |-> "#10a37f"]

call_gemini(prompt) == [agent |-> "Gemini", agent_color |-> "#1a73e8"]

call_deepseek(prompt) == [agent |-> "DeepSeek", agent_color |-> "#4b6bfb"]

call_perplexity(prompt) == [agent |-> "Perplexity", agent_color |-> "#5436da"]

call_gpai(prompt) == [agent |-> "GPAI", agent_color |-> "#ff6b4a"]

call_codex(prompt) == [agent |-> "Codex", agent_color |-> "#ff6e4a"]

\* agent_functions.get(agent_name, call_chatgpt)(prompt)
agent_function(agent_name, prompt) ==
  CASE agent_name = "chatgpt"    -> call_chatgpt(prompt)
    [] agent_name = "gemini"     -> call_gemini(prompt)
    [] agent_name = "deepseek"   -> call_deepseek(prompt)
    [] agent_name = "perplexity" -> call_perplexity(prompt)
    [] agent_name = "gpai"       -> call_gpai(prompt)
    [] agent_name = "codex"      -> call_codex(prompt)
    [] OTHER                     -> call_chatgpt(prompt)

----------------------------------------------------------------------------
(* State                                                                   *)

HistoryCap == 10

PromptCut == 60

SubscriptionFallbackReason == "Fallback due to subscription status"

Init ==
  /\ subscriptions = [a \in Agents |-> TRUE]
  /\ session = EmptyDict
  /\ recorded = <<>>
  /\ response = [kind |-> "none"]

\* session['request_history'], [] when the key is absent
history == dict_get(session, "request_history", <<>>)

\* the three mock results of /search and /search-and-route
mock_results ==
  << [source |-> "Wikipedia"], [source |-> "Academic Journal"],
     [source |-> "Technical Documentation"] >>

\* prompt_text[:60] + ('...' if len(prompt_text) > 60 else '')
entry_prompt(prompt_text) ==
  SubSeq(prompt_text, 1, Min(PromptCut, Len(prompt_text)))
    \o (IF Len(prompt_text) > PromptCut THEN <<".", ".", ".">> ELSE <<>>)

\* variant: the trim keeps the last 10, [-10:]
insert_and_trim_keep_last(hist, entry) ==
  LET inserted == <<entry>> \o hist
  IN  SubSeq(inserted, Len(inserted) - Min(HistoryCap, Len(inserted)) + 1,
             Len(inserted))

\* session['request_history'].insert(0, entry); ... = ...[:10]
insert_and_trim(hist, entry) ==
  LET inserted == <<entry>> \o hist
  IN  SubSeq(inserted, 1, Min(HistoryCap, Len(inserted)))

----------------------------------------------------------------------------
(* Handlers                                                                *)

\* POST /search
search(query) ==
  /\ response' =
       [kind    |-> "search",
        query   |-> query,
        results |-> IF query # <<>>
                      THEN mock_results \o
                             << [source |-> "Engine Agent",
                                 agent  |-> routing_table[query].agent,
                                 reason |-> routing_table[query].reason] >>
                      ELSE <<>>]
  /\ UNCHANGED <<subscriptions, session, recorded>>

\* variant: the history entry is recorded before the subscription check
handle_prompt_records_first(prompt_text) ==
  LET routing    == routing_table[prompt_text]
      agent_name == routing.agent
      reply      == IF ~ dict_get(subscriptions, agent_name, FALSE)
                      THEN call_chatgpt(prompt_text)
                      ELSE agent_function(agent_name, prompt_text)
      history_entry ==
        [prompt         |-> entry_prompt(prompt_text),
         agent          |-> reply.agent,
         routing_reason |-> routing.reason]
  IN  /\ session' = dict_set(session, "request_history",
                             insert_and_trim(history, history_entry))
      /\ recorded' = Append(recorded, history_entry)
      /\ response' =
           IF ~ dict_get(subscriptions, agent_name, FALSE)
             THEN [kind     |-> "prompt",
                   prompt   |-> prompt_text,
                   success  |-> FALSE,
                   error    |-> agent_name,
                   fallback |-> TRUE,
                   routing  |-> [agent          |-> "chatgpt",
                                 original_agent |-> agent_name,
                                 reason         |-> SubscriptionFallbackReason],
                   response |-> reply]
             ELSE [kind     |-> "prompt",
                   prompt   |-> prompt_text,
                   success  |-> TRUE,
                   routing  |-> routing,
                   response |-> reply]
      /\ UNCHANGED subscriptions

\* POST /prompt
handle_prompt(prompt_text) ==
  LET routing    == routing_table[prompt_text]
      agent_name == routing.agent
  IN  IF ~ dict_get(subscriptions, agent_name, FALSE)
        THEN /\ response' =
                  [kind     |-> "prompt",
                   prompt   |-> prompt_text,
                   success  |-> FALSE,
                   error    |-> agent_name,
                   fallback |-> TRUE,
                   routing  |-> [agent          |-> "chatgpt",
                                 original_agent |-> agent_name,
                                 reason         |-> SubscriptionFallbackReason],
                   response |-> call_chatgpt(prompt_text)]
             /\ UNCHANGED <<subscriptions, session, recorded>>
        ELSE LET reply == agent_function(agent_name, prompt_text)
                 history_entry ==
                   [prompt         |-> entry_prompt(prompt_text),
                    agent          |-> reply.agent,
                    routing_reason |-> routing.reason]
             IN  /\ session' = dict_set(session, "request_history",
                                        insert_and_trim(history, history_entry))
                 /\ recorded' = Append(recorded, history_entry)
                 /\ response' =
                      [kind     |-> "prompt",
                       prompt   |-> prompt_text,
                       success  |-> TRUE,
                       routing  |-> routing,
                       response |-> reply]
                 /\ UNCHANGED subscriptions

\* variant: the membership test is missing
update_subscription_unchecked(agent, status) ==
  /\ subscriptions' = dict_set(subscriptions, agent, status)
  /\ response' = [kind |-> "subscription", success |-> TRUE,
                  agent |-> agent, status |-> status]
  /\ UNCHANGED <<session, recorded>>

\* POST /subscription
update_subscription(agent, status) ==
  IF agent \in DOMAIN subscriptions
    THEN /\ subscriptions' = dict_set(subscriptions, agent, status)
         /\ response' = [kind |-> "subscription", success |-> TRUE,
                         agent |-> agent, status |-> status]
         /\ UNCHANGED <<session, recorded>>
    ELSE /\ response' = [kind |-> "subscription", success |-> FALSE,
                         error |-> "Invalid agent"]
         /\ UNCHANGED <<subscriptions, session, recorded>>

\* GET /subscription/status
get_subscriptions ==
  /\ response' = [kind |-> "subscription-status", body |-> subscriptions]
  /\ UNCHANGED <<subscriptions, session, recorded>>

\* variant: the decision depends on the subscription map
router_test_subscribed_routing(prompt_text) ==
  LET classified == routing_table[prompt_text]
      routing == IF dict_get(subscriptions, classified.agent, FALSE)
                   THEN classified
                   ELSE [agent |-> "chatgpt", reason |-> SubscriptionFallbackReason]
  IN  /\ response' =
           [kind    |-> "router-test",
            prompt  |-> prompt_text,
            routing |-> routing,
            subscription_status |-> dict_get(subscriptions, routing.agent, FALSE),
            available_agents    |-> DOMAIN subscriptions]
      /\ UNCHANGED <<subscriptions, session, recorded>>

\* POST /router-test
router_test(prompt_text) ==
  LET routing == routing_table[prompt_text]
  IN  /\ response' =
           [kind    |-> "router-test",
            prompt  |-> prompt_text,
            routing |-> routing,
            subscription_status |-> dict_get(subscriptions, routing.agent, FALSE),
            available_agents    |-> DOMAIN subscriptions]
      /\ UNCHANGED <<subscriptions, session, recorded>>

\* GET /history
get_history ==
  /\ session' = IF "request_history" \notin DOMAIN session
                  THEN dict_set(session, "request_history", <<>>)
                  ELSE session
  /\ response' = [kind |-> "history", body |-> history]
  /\ UNCHANGED <<subscriptions, recorded>>

\* POST /history/clear
clear_history ==
  /\ session' = dict_set(session, "request_history", <<>>)
  /\ recorded' = <<>>
  /\ response' = [kind |-> "history-clear", success |-> TRUE]
  /\ UNCHANGED subscriptions

\* POST /search-and-route
search_and_route(query) ==
  /\ response' =
       IF query # <<>>
         THEN LET routing        == routing_table[query]
                  agent_response == agent_function(routing.agent, query)
              IN  [kind    |-> "search-and-route",
                   query   |-> query,
                   results |-> << [source |-> agent_response.agent,
                                   is_router_result |-> TRUE,
                                   agent  |-> routing.agent,
                                   reason |-> routing.reason,
                                   agent_color |-> agent_response.agent_color] >>
                                 \o mock_results,
                   routing |-> routing,
                   agent_response |-> agent_response]
         ELSE [kind    |-> "search-and-route",
               query   |-> query,
               results |-> <<>>,
               routing |-> None,
               agent_response |-> None]
  /\ UNCHANGED <<subscriptions, session, recorded>>

----------------------------------------------------------------------------
(* Specifications                                                          *)

\* the router alone: every prompt through the two handlers that only classify
NextRoute ==
  \/ \E p \in Prompts : router_test(p)
  \/ \E p \in Prompts : search(p)

SpecRoute == Init /\ [][NextRoute]_vars

\* the application: every handler, subscriptions toggled, a short history
Next ==
  \/ \E p \in AppPrompts : search(p)
  \/ \E p \in AppPrompts : Len(recorded) < MaxAppRecorded /\ handle_prompt(p)
  \/ \E a \in AgentInputs, s \in StatusInputs : update_subscription(a, s)
  \/ get_subscriptions
  \/ \E p \in AppPrompts : router_test(p)
  \/ get_history
  \/ clear_history
  \/ \E p \in AppPrompts : search_and_route(p)

Spec == Init /\ [][Next]_vars

\* one session's history: /prompt, /history and /history/clear with every
\* agent subscribed, long enough to reach the trim
NextHistory ==
  \/ \E p \in HistoryPrompts : Len(recorded) < MaxRecorded /\ handle_prompt(p)
  \/ get_history
  \/ clear_history

SpecHistory == Init /\ [][NextHistory]_vars

----------------------------------------------------------------------------
(* Vocabulary of the properties                                            *)

\* the six agent identifiers in the documented declaration order
DeclaredOrder == <<"codex", "perplexity", "gemini", "deepseek", "gpai", "chatgpt">>

SixAgents == {DeclaredOrder[i] : i \in 1..Len(DeclaredOrder)}

\* position of an agent in the declaration order
DeclaredIndex(a) == CHOOSE i \in 1..Len(DeclaredOrder) : DeclaredOrder[i] = a

\* the rule declared for an agent
RuleOf(a) == classification_rules[
               CHOOSE i \in 1..Len(classification_rules) :
                 classification_rules[i].agent = a]

RuleReasons == {classification_rules[i].reason : i \in 1..Len(classification_rules)}

\* the score of an agent as the specification states it: 3 per matching
\* pattern, 5 per contained keyword, 1 more for chatgpt
StatedScore(a, p) ==
  LET rule == RuleOf(a)
      low  == lower(p)
      hitP == {i \in 1..Len(rule.patterns) : re_search(rule.patterns[i], low)}
      hitK == {k \in 1..Len(rule.keywords) : contains(low, rule.keywords[k])}
  IN  3 * Cardinality(hitP) + 5 * Cardinality(hitK)
        + (IF a = "chatgpt" THEN 1 ELSE 0)

\* the agents sharing the maximum stated score
StatedTop(p) ==
  {a \in SixAgents : \A b \in SixAgents : StatedScore(b, p) <= StatedScore(a, p)}

\* the last response carries a decision of route_prompt
Classified ==
  \/ response.kind = "router-test"
  \/ response.kind = "search" /\ response.query # <<>>

\* the prompt and the decision the last response carries
ClassifiedPrompt ==
  IF response.kind = "router-test" THEN response.prompt ELSE response.query

Decision ==
  IF response.kind = "router-test"
    THEN response.routing
    ELSE [agent  |-> response.results[4].agent,
          reason |-> response.results[4].reason]

----------------------------------------------------------------------------
(* Properties                                                              *)

\* C1: route_prompt of the empty prompt returns agent chatgpt with reason
\* exactly 'No specific intent detected - routing to general assistant'.
C1_EmptyPromptNoIntent ==
  (response.kind = "router-test" /\ response.prompt = <<>>)
    => /\ response.routing.agent = "chatgpt"
       /\ response.routing.reason = NoIntentReason

\* C2: when two or more agents share the maximum score, the decision is the
\* tied agent declared first in the rule table, on every call.
C2_TieByDeclarationOrder ==
  Classified =>
    LET tied == StatedTop(ClassifiedPrompt)
    IN  Cardinality(tied) >= 2 =>
          /\ Decision.agent \in tied
          /\ \A a \in tied : DeclaredIndex(Decision.agent) <= DeclaredIndex(a)

C2_Witness ==
  /\ Classified
  /\ StatedTop(ClassifiedPrompt) = {"perplexity", "gemini"}
  /\ Decision.agent = "perplexity"

\* C3: route_prompt is total: every prompt gets a decision whose agent is one
\* of the six identifiers and whose reason is that agent's rule reason or the
\* fallback reason.
C3_Total ==
  Classified =>
    /\ Decision.agent \in SixAgents
    /\ \/ Decision.reason = RuleOf(Decision.agent).reason
       \/ Decision.reason = NoIntentReason

C3_Witness ==
  /\ Classified
  /\ ClassifiedPrompt = <<"h","e","l","l","o">>
  /\ Decision.agent = "chatgpt"

\* C7: the returned agent has the maximum score, the score being 3 per
\* matching pattern plus 5 per contained keyword plus 1 for chatgpt only.
C7_ReturnsMaxScore ==
  Classified =>
    \A b \in SixAgents :
      StatedScore(b, ClassifiedPrompt) <= StatedScore(Decision.agent, ClassifiedPrompt)

C7_Witness ==
  /\ Classified
  /\ StatedScore("perplexity", ClassifiedPrompt) = 5
  /\ StatedScore("codex", ClassifiedPrompt) = 3
  /\ Decision.agent = "perplexity"

\* C8: the maximum score is at least 1 for every prompt, and every reason
\* returned is one of the six rule reasons (neither the max_score == 0 branch
\* nor the 'Default routing' return is taken).
C8_MaxScoreAtLeastOne ==
  Classified =>
    /\ max_of(final_scores(ClassifiedPrompt)) >= 1
    /\ Decision.reason \in RuleReasons

C8_Witness ==
  /\ Classified
  /\ ClassifiedPrompt = <<>>
  /\ max_of(final_scores(ClassifiedPrompt)) = 1
  /\ Decision.reason = "General knowledge/conversational query"

\* the classified agent of prompt p is unsubscribed in the current state
Unsubscribed(p) == ~ dict_get(subscriptions, routing_table[p].agent, FALSE)

\* C4: in /prompt and /search-and-route, when the classified agent is
\* unsubscribed the handler substitutes chatgpt with the reason 'Fallback due
\* to subscription status' and invokes no other responder.
C4_UnsubscribedSubstituted ==
  [][\A p \in AppPrompts :
       /\ (handle_prompt(p) /\ Unsubscribed(p)) =>
            /\ response'.routing.agent = "chatgpt"
            /\ response'.routing.reason = SubscriptionFallbackReason
            /\ response'.response.agent = "ChatGPT"
       /\ (p # <<>> /\ search_and_route(p) /\ Unsubscribed(p)) =>
            /\ response'.routing.agent = "chatgpt"
            /\ response'.routing.reason = SubscriptionFallbackReason
            /\ response'.agent_response.agent = "ChatGPT"]_vars

\* C5: in one session the history holds at most 10 entries, newest first,
\* and they are the most recent requests recorded since the last clear.
C5_HistoryBounded ==
  /\ Len(history) <= 10
  /\ Len(history) = Min(10, Len(recorded))
  /\ \A i \in 1..Len(history) : history[i] = recorded[Len(recorded) - i + 1]

C5_Witness ==
  /\ Len(recorded) = 11
  /\ Len(history) = 10
  /\ recorded[1] # recorded[2]
  /\ history[10] = recorded[2]
  /\ history[1] = recorded[11]

\* C6: the decision for a prompt is the same in every state, whatever
\* subscription updates and history appends or clears happen, and a
\* classifying call leaves the rule table, the subscription map and the
\* session unchanged.
C6_StateIndependent ==
  [][/\ \A p \in AppPrompts : routing_table[p]' = routing_table[p]
     /\ classification_rules' = classification_rules
     /\ \A p \in AppPrompts :
          (router_test(p) \/ search(p)) => UNCHANGED <<subscriptions, session>>
     /\ response'.kind = "router-test" =>
          response'.routing = routing_table[response'.prompt]]_vars

C6_Witness ==
  /\ response.kind = "router-test"
  /\ response.prompt = <<"s","c","r","i","p","t">>
  /\ response.routing.agent = "codex"
  /\ ~ subscriptions["codex"]
  /\ Len(history) = 2

\* C9: the key set of the subscription map is always the six agents; a
\* request naming an unknown agent answers success false, 'Invalid agent' and
\* changes nothing; a request naming a known agent sets that agent's entry to
\* the supplied status and changes no other entry.
C9_SubscriptionKeys ==
  /\ [](DOMAIN subscriptions = SixAgents)
  /\ [][\A a \in AgentInputs, s \in StatusInputs :
          update_subscription(a, s) =>
            IF a \in SixAgents
              THEN /\ subscriptions'[a] = s
                   /\ \A b \in SixAgents \ {a} : subscriptions'[b] = subscriptions[b]
                   /\ response'.success
              ELSE /\ response'.success = FALSE
                   /\ response'.error = "Invalid agent"
                   /\ subscriptions' = subscriptions]_vars

C9_Witness ==
  /\ response.kind = "subscription"
  /\ response.success = FALSE
  /\ \E a \in SixAgents : ~ subscriptions[a]
  /\ \E a \in SixAgents : subscriptions[a]

\* C10: a /prompt request whose classified agent is unsubscribed answers with
\* the chatgpt fallback and leaves the history unchanged; an entry is added
\* only when the agent is subscribed, and its routing_reason is the reason
\* route_prompt returns for the prompt.
C10_HistoryOnlyWhenSubscribed ==
  [][\A p \in AppPrompts :
       handle_prompt(p) =>
         IF Unsubscribed(p)
           THEN /\ session' = session
                /\ response'.fallback
                /\ response'.routing.agent = "chatgpt"
                /\ response'.response.agent = "ChatGPT"
           ELSE /\ Len(history') = Min(10, Len(history) + 1)
                /\ history'[1].routing_reason = routing_table[p].reason
                /\ \A i \in 2..Len(history') : history'[i] = history[i - 1]]_vars

C10_Witness ==
  /\ response.kind = "prompt"
  /\ response.success = FALSE
  /\ response.routing.original_agent = "perplexity"
  /\ Len(history) = 1
  /\ history[1].routing_reason = "Programming/code request detected"

====
